---- MODULE Spec2Model ----
(***************************************************************************)
(* Model of the molarity calculator (src/main.cpp): the five rows of the   *)
(* Calculator form (number text, selected unit, label colour and font),    *)
(* the callbacks calculate_cb and clear_cb, and the user's edits of a      *)
(* number field and of a unit choice.                                      *)
(*                                                                         *)
(* Numbers.  A double is modelled by an exact non-negative rational        *)
(* <<n, d>> in lowest terms.  <<1, 0>> is the IEEE infinity a division by  *)
(* zero yields.  <<0, 0>> (Unrep) marks a value whose numerator or         *)
(* denominator would exceed Limit: a calculation that meets one is not     *)
(* explored.  The text of a number field is <<>> when empty and <<q>>      *)
(* when it holds the decimal string of the rational q.                     *)
(***************************************************************************)
EXTENDS Integers, Sequences, FiniteSets, TLC

\* ------------------------------------------------------------- bounds
\* Largest numerator or denominator the model represents.
Limit == 1000000000
\* Calculations explored in one behaviour.
MaxCalcs == 2
\* Edits of a number field or a unit choice explored after the first
\* calculation (before it, edits are not bounded).
MaxLateEdits == 1

\* ---------------------------------------------------------- constants
ROWS == 5
Rows == 0 .. (ROWS - 1)

\* enum RowEnum: one bit per row, read right to left.
RowEnum_mass == 1
RowEnum_molar_mass == 2
RowEnum_moles == 4
RowEnum_volume == 8
RowEnum_molarity == 16
\* RowEnum::all and RowEnum::none as the sets of their bits: a bit mask is
\* modelled by the set of the bits that are on.
RowEnum_all == {RowEnum_mass, RowEnum_molar_mass, RowEnum_moles, RowEnum_volume, RowEnum_molarity}
RowEnum_none == {}

\* units_vector: per row, unit label |-> exponent e of its factor 10^e.
units_vector ==
  << [milligrams |-> -3, micrograms |-> -6, nanograms |-> -9, grams |-> 0, kilograms |-> 3],
     ("/g/mol" :> 0) @@ ("/mg/mol" :> -3) @@ ("/g/mmol" :> 3),
     [mol |-> 0, mmol |-> -3, umol |-> -6],
     [mL |-> -3, uL |-> -6, nL |-> -9, L |-> 0],
     [mM |-> -3, uM |-> -6, nM |-> -9, pM |-> -12, M |-> 0] >>

\* std::to_string(double) prints "%f": six digits after the decimal point.
Precision == 6

\* ----------------------------------------------------------- rationals
Zero == <<0, 1>>
Inf == <<1, 0>>
Unrep == <<0, 0>>

RECURSIVE GCD(_, _)
GCD(a, b) == IF b = 0 THEN a ELSE GCD(b, a % b)

\* x * y <= Limit, for x, y >= 0, without forming the product.
Fits(x, y) == x = 0 \/ y <= Limit \div x

Norm(n, d) == IF n = 0 THEN Zero ELSE LET g == GCD(n, d) IN <<n \div g, d \div g>>

\* a * b on doubles.
Mul(a, b) ==
  IF a = Unrep \/ b = Unrep THEN Unrep
  ELSE IF a = Inf \/ b = Inf THEN Inf
  ELSE IF a[1] = 0 \/ b[1] = 0 THEN Zero
  ELSE LET g1 == GCD(a[1], b[2])
           g2 == GCD(b[1], a[2])
           n1 == a[1] \div g1
           n2 == b[1] \div g2
           d1 == a[2] \div g2
           d2 == b[2] \div g1
       IN  IF Fits(n1, n2) /\ Fits(d1, d2) THEN <<n1 * n2, d1 * d2>> ELSE Unrep

\* a / b on doubles: a division by zero yields an infinity (or a NaN, which
\* the model does not tell apart), never a trap.
Div(a, b) ==
  IF a = Unrep \/ b = Unrep THEN Unrep
  ELSE IF b = Zero \/ a = Inf THEN Inf
  ELSE IF b = Inf THEN Zero
  ELSE Mul(a, <<b[2], b[1]>>)

\* The first k digits after the point of r / d (r < d), and the remainder.
RECURSIVE FracDigits(_, _, _)
FracDigits(r, d, k) ==
  IF k = 0 THEN <<0, r>>
  ELSE LET t == r * 10
           rest == FracDigits(t % d, d, k - 1)
       IN  <<(t \div d) * (10 ^ (k - 1)) + rest[1], rest[2]>>

\* -------------------------------------------------------------- state
VARIABLES
  float_input,   \* float_input_ptrs[r]->value(): <<>> (empty) or <<q>>
  input_choice,  \* input_choice_ptrs[r]->value(): the selected unit label
  box,           \* box_ptrs[r]: the row header's labelcolor and labelfont
  ncalc,         \* calculations since construction
  nlate,         \* edits made after the first calculation
  last,          \* the handler that ran last
  frame          \* <<locals of the last calculate_cb call>>, <<>> after any other handler

vars == <<float_input, input_choice, box, ncalc, nlate, last, frame>>

\* The texts a user types into a number field: nothing (an emptied field) or
\* "0.003", whose products and quotients are exact (0.000009), rounded
\* (333.333333) and rounded to zero (0.000000).
InputTexts == {<<>>, <<(<<3, 1000>>)>>}

\* The exponents of the units a user selects in the model.
UnitExponents == {0, 3}

UnitChoices(r) == {u \in DOMAIN units_vector[r + 1] : units_vector[r + 1][u] \in UnitExponents}

\* The factor of unit u of row r (elem.second) as a rational.
Factor(r, u) ==
  LET e == units_vector[r + 1][u]
  IN  IF e > 9 \/ e < -9 THEN Unrep
      ELSE IF e >= 0 THEN <<10 ^ e, 1>> ELSE <<1, 10 ^ (0 - e)>>

\* std::to_string(double): the value rounded to Precision digits after the
\* point, as the rational the printed string denotes.  printf rounds the
\* double's exact binary value, so a decimal tie (the discarded digits being
\* exactly a half) goes up or down with the binary representation, which a
\* rational does not carry: such a value is Unrep.  A value below half a unit
\* of the last digit prints as 0.000000.
to_string(v) ==
  IF v = Unrep \/ v = Inf THEN v
  ELSE IF v[1] <= (v[2] - 1) \div (2 * 10 ^ Precision) THEN Zero
  ELSE IF v[2] > Limit \div 10 THEN Unrep
  ELSE LET ip == v[1] \div v[2]
           fr == FracDigits(v[1] % v[2], v[2], Precision)
           f  == Norm(fr[1] + (IF 2 * fr[2] > v[2] THEN 1 ELSE 0), 10 ^ Precision)
       IN  IF 2 * fr[2] # v[2] /\ Fits(ip, f[2]) /\ ip * f[2] <= Limit - f[1]
           THEN <<ip * f[2] + f[1], f[2]>>
           ELSE Unrep

\* atof(const char*): the empty string parses to 0.
atof(t) == IF t = <<>> THEN Zero ELSE t[1]

\* Calculator::get_value(p) on the fields fi and unit choices ic.  The unit
\* field is read-only and always holds one of the row's labels, so the loop
\* always returns.
get_value_of(fi, ic, p) == Mul(atof(fi[p]), Factor(p, ic[p]))

get_value(p) == get_value_of(float_input, input_choice, p)

\* The text set_value writes for value in row p: the value divided by the
\* factor of the row's unit, printed by std::to_string.
display(p, value) == <<to_string(Div(value, Factor(p, input_choice[p])))>>

\* Calculator::set_value(p, value, empty) on the fields fi.
set_value(fi, p, value, empty) ==
  IF empty THEN [fi EXCEPT ![p] = <<>>]
  ELSE [fi EXCEPT ![p] = display(p, value)]

\* Calculator::set_colour(bin, c, ft) on the labels lab: bit j of bin, read
\* from the right, is row j.
set_colour(lab, bin, c, ft) ==
  IF bin = {} THEN lab
  ELSE [j \in Rows |-> IF (2 ^ j) \in bin THEN [colour |-> c, font |-> ft] ELSE lab[j]]

\* Mutant of clear_inputs: the loop stops one row early.
clear_inputs_skips_last == [r \in Rows |-> IF r = ROWS - 1 THEN float_input[r] ELSE <<>>]

\* Calculator::clear_inputs().
clear_inputs == [r \in Rows |-> <<>>]

\* ------------------------------------------------------- calculate_cb
\* A double in a condition: anything but zero is true.
Truthy(x) == x # Zero

\* One call of set_value, as calculate_cb makes it.
Set(row, v) == [row |-> row, value |-> v, empty |-> FALSE]
SetEmpty(row) == [row |-> row, value |-> Zero, empty |-> TRUE]

\* What one case of the switch does: the branch taken, its set_value calls
\* in order, the two font conditions after it, and the right operand of
\* every division it evaluated.
Outcome(b, c, g, r, dv) == [branch |-> b, calls |-> c, good |-> g, bad |-> r, divisors |-> dv]

\* Mutant of case_0: the else clause leaves bad_font_condition as it is.
case_0_else_keeps_bad(mass, molar_mass, moles, volume, molarity, good, bad) ==
  IF Truthy(molar_mass)
  THEN IF Truthy(volume) /\ Truthy(molarity)
       THEN Outcome("mass3",
                    <<Set(0, Mul(Mul(volume, molarity), molar_mass)), Set(2, Mul(volume, molarity))>>,
                    good \cap {RowEnum_molar_mass, RowEnum_volume, RowEnum_molarity}, {}, <<>>)
       ELSE IF Truthy(moles)
       THEN Outcome("mass2", <<Set(0, Mul(moles, molar_mass))>>,
                    good \cap {RowEnum_molar_mass, RowEnum_moles}, bad, <<>>)
       ELSE Outcome("mass_none", <<>>, good, bad, <<>>)
  ELSE Outcome("mass_else", <<>>, good, bad, <<>>)

\* case 0: calculate mass from other values.
case_0(mass, molar_mass, moles, volume, molarity, good, bad) ==
  IF Truthy(molar_mass)
  THEN IF Truthy(volume) /\ Truthy(molarity)
       THEN Outcome("mass3",
                    <<Set(0, Mul(Mul(volume, molarity), molar_mass)), Set(2, Mul(volume, molarity))>>,
                    good \cap {RowEnum_molar_mass, RowEnum_volume, RowEnum_molarity}, {}, <<>>)
       ELSE IF Truthy(moles)
       THEN Outcome("mass2", <<Set(0, Mul(moles, molar_mass))>>,
                    good \cap {RowEnum_molar_mass, RowEnum_moles}, bad, <<>>)
       ELSE Outcome("mass_none", <<>>, good, bad, <<>>)
  ELSE Outcome("mass_else", <<>>, good,
               bad \cap {RowEnum_molar_mass, RowEnum_volume, RowEnum_molarity}, <<>>)

\* Mutant of case_1: the two-input branch does not test moles.
case_1_unguarded(mass, molar_mass, moles, volume, molarity, good, bad) ==
  IF Truthy(mass)
  THEN IF Truthy(volume) /\ Truthy(molarity)
       THEN Outcome("molar_mass3",
                    <<Set(1, Div(mass, Mul(volume, molarity))), Set(2, Mul(volume, molarity))>>,
                    good \cap {RowEnum_mass, RowEnum_volume, RowEnum_molarity}, {},
                    <<Mul(volume, molarity)>>)
       ELSE Outcome("molar_mass2", <<Set(1, Div(mass, moles))>>,
                    good \cap {RowEnum_moles, RowEnum_mass}, bad, <<moles>>)
  ELSE Outcome("molar_mass_else", <<>>, good,
               bad \cap {RowEnum_mass, RowEnum_volume, RowEnum_molarity}, <<>>)

\* case 1: calculate molar mass.
case_1(mass, molar_mass, moles, volume, molarity, good, bad) ==
  IF Truthy(mass)
  THEN IF Truthy(volume) /\ Truthy(molarity)
       THEN Outcome("molar_mass3",
                    <<Set(1, Div(mass, Mul(volume, molarity))), Set(2, Mul(volume, molarity))>>,
                    good \cap {RowEnum_mass, RowEnum_volume, RowEnum_molarity}, {},
                    <<Mul(volume, molarity)>>)
       ELSE IF Truthy(moles)
       THEN Outcome("molar_mass2", <<Set(1, Div(mass, moles))>>,
                    good \cap {RowEnum_moles, RowEnum_mass}, bad, <<moles>>)
       ELSE Outcome("molar_mass_none", <<>>, good, bad, <<>>)
  ELSE Outcome("molar_mass_else", <<>>, good,
               bad \cap {RowEnum_mass, RowEnum_volume, RowEnum_molarity}, <<>>)

\* Mutant of case_2: the first branch does not empty volume and molarity.
case_2_keeps_fields(mass, molar_mass, moles, volume, molarity, good, bad) ==
  IF Truthy(mass) /\ Truthy(molar_mass)
  THEN Outcome("moles_mass", <<Set(2, Div(mass, molar_mass))>>,
               good \cap {RowEnum_molar_mass, RowEnum_mass}, bad, <<molar_mass>>)
  ELSE IF Truthy(volume) /\ Truthy(molarity)
  THEN Outcome("moles_volume", <<Set(2, Mul(volume, molarity))>>,
               good \cap {RowEnum_molarity, RowEnum_volume}, bad, <<>>)
  ELSE Outcome("moles_none", <<>>, good, bad, <<>>)

\* case 2: calculate moles.
case_2(mass, molar_mass, moles, volume, molarity, good, bad) ==
  IF Truthy(mass) /\ Truthy(molar_mass)
  THEN Outcome("moles_mass", <<Set(2, Div(mass, molar_mass)), SetEmpty(3), SetEmpty(4)>>,
               good \cap {RowEnum_molar_mass, RowEnum_mass}, bad, <<molar_mass>>)
  ELSE IF Truthy(volume) /\ Truthy(molarity)
  THEN Outcome("moles_volume", <<Set(2, Mul(volume, molarity))>>,
               good \cap {RowEnum_molarity, RowEnum_volume}, bad, <<>>)
  ELSE Outcome("moles_none", <<>>, good, bad, <<>>)

\* Mutant of case_3: the three-input branch does not rewrite moles.
case_3_keeps_moles(mass, molar_mass, moles, volume, molarity, good, bad) ==
  IF Truthy(molarity)
  THEN IF Truthy(mass) /\ Truthy(molar_mass)
       THEN Outcome("volume3",
                    <<Set(3, Div(Div(mass, molar_mass), molarity))>>,
                    good \cap {RowEnum_molarity, RowEnum_mass, RowEnum_molar_mass}, {},
                    <<molar_mass, molarity>>)
       ELSE IF Truthy(moles)
       THEN Outcome("volume2", <<Set(3, Div(moles, molarity))>>,
                    good \cap {RowEnum_molarity, RowEnum_moles}, bad, <<molarity>>)
       ELSE Outcome("volume_none", <<>>, good, bad, <<>>)
  ELSE Outcome("volume_else", <<>>, good,
               bad \cap {RowEnum_molarity, RowEnum_mass, RowEnum_molar_mass}, <<>>)

\* case 3: calculate volume.
case_3(mass, molar_mass, moles, volume, molarity, good, bad) ==
  IF Truthy(molarity)
  THEN IF Truthy(mass) /\ Truthy(molar_mass)
       THEN Outcome("volume3",
                    <<Set(3, Div(Div(mass, molar_mass), molarity)), Set(2, Div(mass, molar_mass))>>,
                    good \cap {RowEnum_molarity, RowEnum_mass, RowEnum_molar_mass}, {},
                    <<molar_mass, molarity, molar_mass>>)
       ELSE IF Truthy(moles)
       THEN Outcome("volume2", <<Set(3, Div(moles, molarity))>>,
                    good \cap {RowEnum_molarity, RowEnum_moles}, bad, <<molarity>>)
       ELSE Outcome("volume_none", <<>>, good, bad, <<>>)
  ELSE Outcome("volume_else", <<>>, good,
               bad \cap {RowEnum_molarity, RowEnum_mass, RowEnum_molar_mass}, <<>>)

\* Mutant of case_4: the two-input branch is tried before the three-input one.
case_4_moles_first(mass, molar_mass, moles, volume, molarity, good, bad) ==
  IF Truthy(volume)
  THEN IF Truthy(moles)
       THEN Outcome("molarity2", <<Set(4, Div(moles, volume))>>,
                    good \cap {RowEnum_volume, RowEnum_mass}, bad, <<volume>>)
       ELSE IF Truthy(mass) /\ Truthy(molar_mass)
       THEN Outcome("molarity3",
                    <<Set(4, Div(Div(mass, molar_mass), volume)), Set(2, Div(mass, molar_mass))>>,
                    good \cap {RowEnum_volume, RowEnum_mass, RowEnum_molar_mass}, {},
                    <<molar_mass, volume, molar_mass>>)
       ELSE Outcome("molarity_none", <<>>, good, bad, <<>>)
  ELSE Outcome("molarity_else", <<>>, good,
               bad \cap {RowEnum_volume, RowEnum_mass, RowEnum_molar_mass}, <<>>)

\* case 4: calculate molarity.
case_4(mass, molar_mass, moles, volume, molarity, good, bad) ==
  IF Truthy(volume)
  THEN IF Truthy(mass) /\ Truthy(molar_mass)
       THEN Outcome("molarity3",
                    <<Set(4, Div(Div(mass, molar_mass), volume)), Set(2, Div(mass, molar_mass))>>,
                    good \cap {RowEnum_volume, RowEnum_mass, RowEnum_molar_mass}, {},
                    <<molar_mass, volume, molar_mass>>)
       ELSE IF Truthy(moles)
       THEN Outcome("molarity2", <<Set(4, Div(moles, volume))>>,
                    good \cap {RowEnum_volume, RowEnum_mass}, bad, <<volume>>)
       ELSE Outcome("molarity_none", <<>>, good, bad, <<>>)
  ELSE Outcome("molarity_else", <<>>, good,
               bad \cap {RowEnum_volume, RowEnum_mass, RowEnum_molar_mass}, <<>>)

\* switch (p), with the default that resets both font conditions.
switch(p, mass, molar_mass, moles, volume, molarity, good, bad) ==
  CASE p = 0 -> case_0(mass, molar_mass, moles, volume, molarity, good, bad)
    [] p = 1 -> case_1(mass, molar_mass, moles, volume, molarity, good, bad)
    [] p = 2 -> case_2(mass, molar_mass, moles, volume, molarity, good, bad)
    [] p = 3 -> case_3(mass, molar_mass, moles, volume, molarity, good, bad)
    [] p = 4 -> case_4(mass, molar_mass, moles, volume, molarity, good, bad)
    [] OTHER -> Outcome("default", <<>>, {}, {}, <<>>)

\* The loop that computes the RowEnum value of row p by repeated doubling.
RECURSIVE current_enum_of(_)
current_enum_of(p) == IF p = 0 THEN 1 ELSE current_enum_of(p - 1) + current_enum_of(p - 1)

\* good_font_condition and bad_font_condition as first computed: the bit of
\* every row whose value is nonzero, and the bit of every other row.
good_font_init(val) == {2 ^ r : r \in {q \in Rows : Truthy(val[q])}}
bad_font_init(val) == {2 ^ r : r \in {q \in Rows : ~Truthy(val[q])}}

\* good_font_condition ^= current_enum, when current is nonzero.
clear_current(good, current, current_enum) ==
  IF Truthy(current)
  THEN (good \ {current_enum}) \cup ({current_enum} \ good)
  ELSE good

\* The set_value calls cs applied to the fields fi, first to last.
RECURSIVE apply_calls(_, _)
apply_calls(fi, cs) ==
  IF cs = <<>> THEN fi
  ELSE apply_calls(set_value(fi, Head(cs).row, Head(cs).value, Head(cs).empty), Tail(cs))

\* Mutant of set_colours: the target is coloured first instead of last.
set_colours_blue_first(lab, good, bad, current_enum) ==
  set_colour(set_colour(set_colour(lab, {current_enum}, "blue", "bold"), good, "green", "bold"),
             bad, "red", "bold")

\* The three closing set_colour calls: green, then red, then blue.
set_colours(lab, good, bad, current_enum) ==
  set_colour(set_colour(set_colour(lab, good, "green", "bold"), bad, "red", "bold"),
             {current_enum}, "blue", "bold")

\* ------------------------------------------------------------ actions
\* The form as the constructor leaves it: every number field empty, every
\* header in the default (black, plain) label, and in every unit choice the
\* first key of the row's std::map<const char*, double>, which orders its
\* keys by address: any of the row's labels.
Init ==
  /\ float_input = [r \in Rows |-> <<>>]
  /\ input_choice \in [Rows -> UNION {UnitChoices(r) : r \in Rows}]
  /\ \A r \in Rows : input_choice[r] \in UnitChoices(r)
  /\ box = [r \in Rows |-> [colour |-> "black", font |-> "normal"]]
  /\ ncalc = 0
  /\ nlate = 0
  /\ last = "constructor"
  /\ frame = <<>>

\* The user types text t into the number field of row r.
Edit(r, t) ==
  /\ t # float_input[r]
  /\ (ncalc = 0 \/ nlate < MaxLateEdits)
  /\ nlate' = IF ncalc = 0 THEN 0 ELSE nlate + 1
  /\ float_input' = [float_input EXCEPT ![r] = t]
  /\ last' = "edit"
  /\ frame' = <<>>
  /\ UNCHANGED <<input_choice, box, ncalc>>

\* The user picks unit u in the choice of row r.
SelectUnit(r, u) ==
  /\ u # input_choice[r]
  /\ (ncalc = 0 \/ nlate < MaxLateEdits)
  /\ nlate' = IF ncalc = 0 THEN 0 ELSE nlate + 1
  /\ input_choice' = [input_choice EXCEPT ![r] = u]
  /\ last' = "unit"
  /\ frame' = <<>>
  /\ UNCHANGED <<float_input, box, ncalc>>

\* clear_cb: the Clear button, or Ctrl+D.
clear_cb ==
  /\ float_input' = clear_inputs
  /\ box' = set_colour(box, RowEnum_all, "black", "normal")
  /\ last' = "clear_cb"
  /\ frame' = <<>>
  /\ UNCHANGED <<input_choice, ncalc, nlate>>

\* The five doubles calculate_cb reads first, by row: mass, molar_mass,
\* moles, volume, molarity.
entry_values(fi) == [r \in Rows |-> get_value_of(fi, input_choice, r)]

\* The switch on the values val, entered with the font conditions as the
\* lines before it leave them.
derive(val, p) ==
  switch(p, val[0], val[1], val[2], val[3], val[4],
         clear_current(good_font_init(val), val[p], current_enum_of(p)),
         bad_font_init(val))

\* Mutant of fields_after: a target that holds a value is not emptied first.
fields_after_keeps_target(fi, val, o, p) == apply_calls(fi, o.calls)

\* The number fields when calculate_cb returns: the target emptied if it
\* held a nonzero value, then the set_value calls of the branch taken.
fields_after(fi, val, o, p) ==
  apply_calls(IF Truthy(val[p]) THEN set_value(fi, p, Zero, TRUE) ELSE fi, o.calls)

\* Mutant of labels_after: the labels are not reset to black first.
labels_after_no_reset(lab, o, p) == set_colours(lab, o.good, o.bad, current_enum_of(p))

\* The labels when calculate_cb returns: all reset to black, then coloured.
labels_after(lab, o, p) ==
  set_colours(set_colour(lab, RowEnum_all, "black", "normal"),
              o.good, o.bad, current_enum_of(p))

\* calculate_cb(w, p): the Calculate button of row p, or Ctrl+Enter in its
\* number field.  frame keeps the call's locals, the fields it was entered
\* with, and in `before` the row of the calculation that ran just before
\* this one (-1 when another handler did).
calculate_cb(p) ==
  \E val \in {entry_values(float_input)} :
  \E o \in {derive(val, p)} :
  \E fo \in {fields_after(float_input, val, o, p)} :
    /\ ncalc < MaxCalcs
    /\ \A r \in Rows : val[r] # Unrep /\ fo[r] # <<Unrep>>
    /\ float_input' = fo
    /\ box' = labels_after(box, o, p)
    /\ ncalc' = ncalc + 1
    /\ last' = "calculate_cb"
    /\ frame' = << [p |-> p, fields |-> float_input, val |-> val, current |-> val[p],
                   current_enum |-> current_enum_of(p), branch |-> o.branch,
                   calls |-> o.calls, good_font_condition |-> o.good,
                   bad_font_condition |-> o.bad, divisors |-> o.divisors,
                   before |-> IF last = "calculate_cb" THEN frame[1].p ELSE -1] >>
    /\ UNCHANGED <<input_choice, nlate>>

Next ==
  \/ \E r \in Rows : \E t \in InputTexts : Edit(r, t)
  \/ \E r \in Rows : \E u \in UnitChoices(r) : SelectUnit(r, u)
  \/ \E p \in Rows : calculate_cb(p)
  \/ clear_cb

Spec == Init /\ [][Next]_vars

\* ------------------------------------------------------------- claims
\* The last handler was a calculation, whose locals are F.
Calculated == last = "calculate_cb"
F == frame[1]

\* The classification of the rows, read off the labels.
UsedRows == {r \in Rows : box[r] = [colour |-> "green", font |-> "bold"]}
MissingRows == {r \in Rows : box[r] = [colour |-> "red", font |-> "bold"]}
ResultRows == {r \in Rows : box[r] = [colour |-> "blue", font |-> "bold"]}
NeutralRows == {r \in Rows : box[r] = [colour |-> "black", font |-> "normal"]}

\* Row r held a nonzero value when the calculation was entered.
Present(r) == Truthy(F.val[r])
AbsentRows == {r \in Rows : ~Present(r)}

ThreeInput == {"mass3", "molar_mass3", "volume3", "molarity3"}
Matched == ThreeInput \cup {"mass2", "molar_mass2", "moles_mass", "moles_volume", "volume2", "molarity2"}
ElseClause == {"mass_else", "molar_mass_else", "volume_else", "molarity_else"}

\* Every value the calculation wrote reads back as the value it was given:
\* std::to_string dropped no digit.
Exact == \A i \in DOMAIN F.calls : F.calls[i].empty \/ get_value(F.calls[i].row) = F.calls[i].value

\* C1: after every calculation the rows marked result are exactly the target
\* row, the target is neither used nor missing, every row carries exactly one
\* of the four classifications, and used, missing and result are disjoint.
C1_TargetIsResult ==
  Calculated =>
    /\ ResultRows = {F.p}
    /\ F.p \notin UsedRows \cup MissingRows
    /\ UsedRows \cup MissingRows \cup ResultRows \cup NeutralRows = Rows
    /\ UsedRows \cap MissingRows = {}
    /\ UsedRows \cap ResultRows = {}
    /\ MissingRows \cap ResultRows = {}

\* A calculation that computed its target although the target's own bit was
\* in bad_font_condition: the red mark is overridden by the blue one.
C1_Witness ==
  /\ Calculated
  /\ F.branch \in Matched
  /\ F.current_enum \in F.bad_font_condition
  /\ ResultRows = {F.p}

\* C2 as stated: after a calculation on one of the five rows no row is left
\* neutral.
C2_Original == (Calculated /\ F.p \in Rows) => NeutralRows = {}

\* C2 amended: after a calculation the target is result and every other row
\* is used, missing or neutral; a used row held a nonzero value at entry, a
\* missing row held zero, and a row is neutral exactly when its bit is in
\* neither font condition, which happens for recognized targets too.
C2_Amended ==
  Calculated =>
    /\ F.p \in ResultRows
    /\ \A r \in Rows \ {F.p} :
         /\ r \in UsedRows \cup MissingRows \cup NeutralRows
         /\ r \in UsedRows => Present(r)
         /\ r \in MissingRows => ~Present(r)
         /\ r \in NeutralRows <=> (2 ^ r) \notin (F.good_font_condition \cup F.bad_font_condition)

\* A three-input branch on a form whose Moles row held a value: Moles is
\* rewritten and left neutral, although the labels were coloured before.
C2_Witness ==
  /\ Calculated
  /\ F.branch \in ThreeInput
  /\ Present(2)
  /\ 2 \in NeutralRows
  /\ F.before # -1

\* C3 as stated: Moles from Mass and MolarMass writes mass / molar_mass,
\* empties Volume and Molarity, marks exactly Mass and MolarMass used and
\* marks no row missing.
C3_Original ==
  (Calculated /\ F.p = 2 /\ Present(0) /\ Present(1)) =>
    /\ float_input[2] = display(2, Div(F.val[0], F.val[1]))
    /\ float_input[3] = <<>>
    /\ float_input[4] = <<>>
    /\ UsedRows = {0, 1}
    /\ MissingRows = {}

\* C3 amended: as stated, except that the rows marked missing are exactly
\* those of Volume and Molarity that held zero at entry.
C3_Amended ==
  (Calculated /\ F.p = 2 /\ Present(0) /\ Present(1)) =>
    /\ float_input[2] = display(2, Div(F.val[0], F.val[1]))
    /\ float_input[3] = <<>>
    /\ float_input[4] = <<>>
    /\ UsedRows = {0, 1}
    /\ MissingRows = {3, 4} \cap AbsentRows

\* Moles calculated from Mass and MolarMass while Moles and Volume held
\* values and Molarity did not.
C3_Witness ==
  /\ Calculated
  /\ F.p = 2
  /\ Present(0) /\ Present(1) /\ Present(2) /\ Present(3) /\ ~Present(4)
  /\ F.fields[3] # <<>>
  /\ float_input[3] = <<>>

\* C4: for Mass, MolarMass, Volume and Molarity, when the three inputs of the
\* three-input branch are present the target is written with the three-input
\* value, Moles with the secondary value, exactly the three inputs are used
\* and no row is missing, whether or not Moles held a value.
C4_ThreeInputWins ==
  Calculated =>
    /\ (F.p = 0 /\ Present(1) /\ Present(3) /\ Present(4)) =>
         /\ float_input[0] = display(0, Mul(Mul(F.val[3], F.val[4]), F.val[1]))
         /\ float_input[2] = display(2, Mul(F.val[3], F.val[4]))
         /\ UsedRows = {1, 3, 4} /\ MissingRows = {}
    /\ (F.p = 1 /\ Present(0) /\ Present(3) /\ Present(4)) =>
         /\ float_input[1] = display(1, Div(F.val[0], Mul(F.val[3], F.val[4])))
         /\ float_input[2] = display(2, Mul(F.val[3], F.val[4]))
         /\ UsedRows = {0, 3, 4} /\ MissingRows = {}
    /\ (F.p = 3 /\ Present(4) /\ Present(0) /\ Present(1)) =>
         /\ float_input[3] = display(3, Div(Div(F.val[0], F.val[1]), F.val[4]))
         /\ float_input[2] = display(2, Div(F.val[0], F.val[1]))
         /\ UsedRows = {4, 0, 1} /\ MissingRows = {}
    /\ (F.p = 4 /\ Present(3) /\ Present(0) /\ Present(1)) =>
         /\ float_input[4] = display(4, Div(Div(F.val[0], F.val[1]), F.val[3]))
         /\ float_input[2] = display(2, Div(F.val[0], F.val[1]))
         /\ UsedRows = {3, 0, 1} /\ MissingRows = {}

\* Molarity calculated with Mass, MolarMass, Volume and Moles all present,
\* and the Moles field rewritten.
C4_Witness ==
  /\ Calculated
  /\ F.p = 4
  /\ Present(0) /\ Present(1) /\ Present(2) /\ Present(3)
  /\ float_input[2] # F.fields[2]

\* The candidate inputs C5 names for each target (none is named for Moles).
Candidate(p) ==
  CASE p = 0 -> {1, 3, 4}
    [] p = 1 -> {0, 3, 4}
    [] p = 3 -> {4, 0, 1}
    [] p = 4 -> {3, 0, 1}
    [] OTHER -> Rows

\* When no branch matches, the target reads as zero (emptied if it held a
\* value) and no other field changes.
NothingDerived ==
  /\ get_value(F.p) = Zero
  /\ Present(F.p) => float_input[F.p] = <<>>
  /\ \A r \in Rows \ {F.p} : float_input[r] = F.fields[r]

\* C5 as stated: when no branch matches, nothing is derived and the rows
\* marked missing are absent rows of the target's candidate set only.
C5_Original ==
  (Calculated /\ F.branch \notin Matched) =>
    /\ NothingDerived
    /\ MissingRows \subseteq AbsentRows \cap Candidate(F.p)

\* C5 amended: when no branch matches, nothing is derived; the rows marked
\* missing are the absent rows of the candidate set when the else clause ran
\* (the input tested first is absent), and every absent row but the target
\* otherwise (that input is present, or the target is Moles).
C5_Amended ==
  (Calculated /\ F.branch \notin Matched) =>
    /\ NothingDerived
    /\ MissingRows = (IF F.branch \in ElseClause
                      THEN AbsentRows \cap Candidate(F.p)
                      ELSE AbsentRows) \ {F.p}

\* Mass calculated with MolarMass present and Moles absent: no branch
\* matches and Moles, outside the candidate set, is marked missing.
C5_Witness ==
  /\ Calculated
  /\ F.branch = "mass_none"
  /\ 2 \in MissingRows

\* C6: a calculation on a row that holds a nonzero value gives the fields and
\* labels it gives on the same form with that row emptied, and leaves the row
\* empty when nothing is derived; a Mass calculation that derives writes
\* Moles * MolarMass (equal to it when nothing was rounded), and a Mass
\* calculation right after a Mass calculation changes no field.
C6_RecomputedFromOthers ==
  Calculated =>
    LET E == [F.fields EXCEPT ![F.p] = <<>>]
        v == entry_values(E)
        o == derive(v, F.p)
    IN  /\ Present(F.p) =>
             /\ float_input = fields_after(E, v, o, F.p)
             /\ box = labels_after(box, o, F.p)
             /\ F.branch \notin Matched => float_input[F.p] = <<>>
        /\ (F.p = 0 /\ F.branch \in Matched) =>
             /\ float_input[0] = display(0, Mul(IF F.branch = "mass3"
                                                 THEN Mul(F.val[3], F.val[4])
                                                 ELSE F.val[2], F.val[1]))
             /\ Exact => get_value(0) = Mul(get_value(2), get_value(1))
        /\ (F.p = 0 /\ F.before = 0) => float_input = F.fields

\* Mass calculated right after Mass was calculated, on a form that holds
\* Mass, MolarMass and Moles.
C6_Witness ==
  /\ Calculated
  /\ F.p = 0
  /\ F.before = 0
  /\ Present(0) /\ Present(1) /\ Present(2)
  /\ F.branch \in Matched
  /\ float_input = F.fields

\* C7: no division of a calculation has a zero right operand, and no field
\* ever shows the infinity such a division would print.
C7_NoDivisionByZero ==
  /\ Calculated => \A i \in DOMAIN F.divisors : F.divisors[i] # Zero
  /\ \A r \in Rows : float_input[r] # <<Inf>>

\* MolarMass calculated as mass / moles while Volume held zero.
C7_Witness ==
  /\ Calculated
  /\ F.branch = "molar_mass2"
  /\ ~Present(3)
  /\ F.divisors = <<F.val[2]>>

\* C8: after Clear every number field is empty and every label is neutral.
C8_ClearEmptiesAll ==
  last = "clear_cb" =>
    \A r \in Rows : float_input[r] = <<>> /\ box[r] = [colour |-> "black", font |-> "normal"]

\* Clear pressed after calculations and later edits.
C8_Witness ==
  /\ last = "clear_cb"
  /\ ncalc > 1
  /\ nlate > 0

\* The input rows whose values the formula of a branch reads.
Consumed(b) ==
  CASE b = "mass3" -> {1, 3, 4}
    [] b = "mass2" -> {1, 2}
    [] b = "molar_mass3" -> {0, 3, 4}
    [] b = "molar_mass2" -> {0, 2}
    [] b = "moles_mass" -> {0, 1}
    [] b = "moles_volume" -> {3, 4}
    [] b = "volume3" -> {4, 0, 1}
    [] b = "volume2" -> {4, 2}
    [] b = "molarity3" -> {3, 0, 1}
    [] b = "molarity2" -> {3, 2}
    [] OTHER -> {}

\* C9: whenever a branch matches, the rows marked used are exactly the rows
\* whose values its formula read.
C9_UsedAreConsumed ==
  (Calculated /\ F.branch \in Matched) => UsedRows = Consumed(F.branch)

\* The two relations among the values the fields now hold, each required
\* only when its three rows are all nonzero.
MassRelation ==
  (Truthy(get_value(0)) /\ Truthy(get_value(1)) /\ Truthy(get_value(2))) =>
    get_value(0) = Mul(get_value(2), get_value(1))
MolesRelation ==
  (Truthy(get_value(2)) /\ Truthy(get_value(3)) /\ Truthy(get_value(4))) =>
    get_value(2) = Mul(get_value(3), get_value(4))

\* C10: after a calculation in which a branch matched and nothing was
\* rounded, mass = moles * molar_mass and moles = volume * molarity each
\* hold whenever their three rows are all nonzero.
C10_RelationsHold ==
  (Calculated /\ F.branch \in Matched /\ Exact) => (MassRelation /\ MolesRelation)

\* A three-input branch on a form whose Moles value contradicted the other
\* rows, after which all five rows are nonzero.
C10_Witness ==
  /\ Calculated
  /\ F.branch \in ThreeInput
  /\ Exact
  /\ Present(2)
  /\ F.val[2] # get_value(2)
  /\ \A r \in Rows : Truthy(get_value(r))

====
